---------------------------- MODULE Spec2Model ----------------------------
(***************************************************************************)
(* Model of demo.py: the Streamlit script that seeds an ad concept and an  *)
(* initial image and then refines the image step by step.  One action is   *)
(* one rerun of main() triggered by one widget: the slider, the form       *)
(* submit button or the "Apply Iteration" button.                          *)
(***************************************************************************)
EXTENDS Integers, Sequences, FiniteSets, TLC

\* ------------------------------------------------------------------ bounds
\* Largest slider position the modelled user picks (the slider itself goes
\* up to SliderMax).
MaxSliderChoice == 2

\* ------------------------------------------------------- program constants
SliderMin == 1
SliderMax == 10
DefaultMax == 3

\* Python's None for a dict-valued result, for an image-valued result, and
\* the marker of a key that is not in a dict.
None == [none |-> TRUE]
NoImage == "None"
Absent == "<absent>"

\* Data URIs the image endpoints can return.
Images == {"data:img1", "data:img2"}

\* Values of the two instruction fields of a critique, and of its text.
EditInstr == "edit_instr"
GenInstr == "gen_instr"
CritiqueText == "critique_text"

Min(a, b) == IF a < b THEN a ELSE b

\* Positions of the slider the user moves it to.
SliderValues == SliderMin..Min(SliderMax, MaxSliderChoice)

\* ------------------------------------------------- responses of the models
\* A failed client call (exception inside the try block).
ApiError == [error |-> TRUE]

ConceptRequired == {"headline", "primary_text", "cta", "image_edit_instructions"}

\* JSON objects the concept completion can return: the keys present and the
\* value of image_edit_instructions.
ConceptResponses ==
    { [keys |-> ConceptRequired, image_edit_instructions |-> p] :
          p \in {"promptA", "promptB"} }
    \cup { [keys |-> ConceptRequired \ {"cta"}, image_edit_instructions |-> "promptA"],
           ApiError }

\* Values the model can put in the recommendation field.
Recommendations == {"edit", "new", "Edit", "New", "maybe"}

CritiqueKeys == {"critique", "recommendation", "edit_instructions",
                 "generation_instructions"}

\* JSON objects the critique completion can return.
CritiqueResponses ==
    { [keys |-> k, recommendation |-> r] :
          k \in {s \in SUBSET CritiqueKeys : "recommendation" \in s},
          r \in Recommendations }
    \cup { [keys |-> k, recommendation |-> Absent] :
          k \in SUBSET (CritiqueKeys \ {"recommendation"}) }
    \cup { ApiError }

\* Outcomes of client.images.generate.
GenerateOutcomes == Images \cup {"api_error"}

\* Outcomes of the body of edit_image_with_prompt.
EditOutcomes == Images \cup {"decode_error", "write_error", "api_error"}

\* ------------------------------------------------------------------- state
VARIABLES
    iterations,         \* st.session_state.iterations
    current_iteration,  \* st.session_state.current_iteration (the cursor)
    max_iterations,     \* st.session_state.max_iterations
    ad_concept,         \* st.session_state.ad_concept
    temp_file,          \* TRUE iff temp_image.png exists on disk
    event,              \* widget that triggered the last rerun
    outcome,            \* "ok" or the st.error surfaced by the last rerun
    calls,              \* client calls made by the last rerun, in order
    critic_reply        \* JSON the critique completion returned in the last
                        \* rerun (None if it was not called)

vars == <<iterations, current_iteration, max_iterations, ad_concept,
          temp_file, event, outcome, calls, critic_reply>>

Call(fn, image, prompt) == [fn |-> fn, image |-> image, prompt |-> prompt]

\* base64.b64decode(uri.split(",")[1]): the bytes behind a data URI.
Payload(uri) ==
    CASE uri = "data:img1" -> "png1"
      [] uri = "data:img2" -> "png2"
      [] OTHER -> "decode_error"

\* The client call made by generate_ad_concept.
concept_calls == <<Call("chat.concept", NoImage, Absent)>>

\* The client calls made by generate_initial_image: one, whatever comes back.
generate_calls_retry(prompt, out) ==
    IF out \in Images
    THEN <<Call("images.generate", NoImage, prompt)>>
    ELSE <<Call("images.generate", NoImage, prompt),
           Call("images.generate", NoImage, prompt)>>
generate_calls(prompt, out) == <<Call("images.generate", NoImage, prompt)>>

\* The client call made by analyze_and_improve, with the image it attaches.
critique_calls(image_b64) == <<Call("chat.critique", image_b64, Absent)>>

\* ------------------------------------------------------------ pure helpers
\* generate_ad_concept: the parsed JSON if every required field is present.
generate_ad_concept(resp) ==
    IF resp = ApiError THEN None
    ELSE IF ConceptRequired \subseteq resp.keys THEN resp
    ELSE None

\* generate_initial_image: the data URI, or None on any exception.
generate_initial_image(out) ==
    IF out \in Images THEN out ELSE NoImage

\* os.path.exists + os.remove on temp_image.png: whether the file exists
\* afterwards.
remove_if_exists_noop(exists) == exists
remove_if_exists(exists) == FALSE

\* edit_image_with_prompt: resulting image, the images.edit calls made (the
\* endpoint is sent the bytes read back from temp_image.png), and whether
\* temp_image.png is left on disk.
edit_image_with_prompt(base_image, edit_instructions, out) ==
    LET image_data == Payload(base_image)
        \* line 99 creates the file unless the decode of line 96 raised
        written == out # "decode_error"
        called == out \in Images \cup {"api_error"}
    IN  [image |-> IF out \in Images THEN out ELSE NoImage,
         calls |-> IF called
                   THEN <<Call("images.edit", image_data, edit_instructions)>>
                   ELSE <<>>,
         temp |-> remove_if_exists(written)]

\* analyze_and_improve: the parsed JSON if it passes validation, else None.
analyze_and_improve_nocompanion(resp) ==
    IF resp = ApiError THEN None
    ELSE IF {"critique", "recommendation"} \subseteq resp.keys THEN resp
    ELSE None
analyze_and_improve(resp) ==
    IF resp = ApiError THEN None
    ELSE IF {"critique", "recommendation"} \subseteq resp.keys
         THEN IF resp.recommendation = "edit"
                 /\ "edit_instructions" \notin resp.keys THEN None
              ELSE IF resp.recommendation = "new"
                      /\ "generation_instructions" \notin resp.keys THEN None
              ELSE resp
    ELSE None

\* The test of line 294 that selects the edit branch.
recommends_edit_nonnew(analysis) == analysis.recommendation # "new"
recommends_edit(analysis) == analysis.recommendation = "edit"

\* The dict appended by the form handler.
initial_iteration_edit(concept, initial_image) ==
    [iteration |-> 0, image |-> initial_image,
     instructions |-> concept.image_edit_instructions,
     critique |-> Absent, recommendation |-> Absent, type |-> "edit"]
initial_iteration(concept, initial_image) ==
    [iteration |-> 0, image |-> initial_image,
     instructions |-> concept.image_edit_instructions,
     critique |-> Absent, recommendation |-> Absent, type |-> "generate"]

\* The dict appended by the button handler.
new_iteration_cur(cur, result_image, instruction_text, analysis, op_type) ==
    [iteration |-> cur, image |-> result_image,
     instructions |-> instruction_text,
     critique |-> CritiqueText, recommendation |-> analysis.recommendation,
     type |-> op_type]
new_iteration(cur, result_image, instruction_text, analysis, op_type) ==
    [iteration |-> cur + 1, image |-> result_image,
     instructions |-> instruction_text,
     critique |-> CritiqueText, recommendation |-> analysis.recommendation,
     type |-> op_type]

\* Line 280: the image the button handler works on.
last_image_first(its) == its[1].image
last_image(its) == its[Len(its)].image

\* Lines 256-265: the seed is appended only if the image was produced.
seed_append_always(its, initial_image, entry) == Append(its, entry)
seed_append(its, initial_image, entry) ==
    IF initial_image # NoImage THEN Append(its, entry) ELSE its

\* Lines 310-322: append and advance the cursor only if the image exists.
commit_always(its, cur, result_image, entry) ==
    [iterations |-> Append(its, entry), current_iteration |-> cur + 1]
commit_noinc(its, cur, result_image, entry) ==
    IF result_image # NoImage
    THEN [iterations |-> Append(its, entry), current_iteration |-> cur]
    ELSE [iterations |-> its, current_iteration |-> cur]
commit_prepend(its, cur, result_image, entry) ==
    IF result_image # NoImage
    THEN [iterations |-> <<entry>> \o its, current_iteration |-> cur + 1]
    ELSE [iterations |-> its, current_iteration |-> cur]
commit(its, cur, result_image, entry) ==
    IF result_image # NoImage
    THEN [iterations |-> Append(its, entry), current_iteration |-> cur + 1]
    ELSE [iterations |-> its, current_iteration |-> cur]

\* Line 273: the "Apply Iteration" button is rendered.
StepInvokable_le ==
    ad_concept # None /\ current_iteration <= max_iterations
StepInvokable ==
    ad_concept # None /\ current_iteration < max_iterations

\* Lines 346-347: the "Editing process complete" banner is shown.
Complete ==
    iterations # <<>> /\ current_iteration >= max_iterations

\* ----------------------------------------------------------------- actions
Init ==
    /\ iterations = <<>>
    /\ current_iteration = 0
    /\ max_iterations = DefaultMax
    /\ ad_concept = None
    /\ temp_file = FALSE
    /\ event = "init"
    /\ outcome = "ok"
    /\ calls = <<>>
    /\ critic_reply = None

\* The user moves the slider; the rerun stores its value.
SetMaxIterations(n) ==
    /\ n # max_iterations
    /\ max_iterations' = n
    /\ event' = "slider"
    /\ outcome' = "ok"
    /\ calls' = <<>>
    /\ critic_reply' = None
    /\ UNCHANGED <<iterations, current_iteration, ad_concept, temp_file>>

\* The user submits the form ("Start Editing Process").
Seed(cresp, gout) ==
    LET concept == generate_ad_concept(cresp)
        initial_image == generate_initial_image(gout)
    IN  /\ event' = "seed"
        /\ current_iteration' = 0
        /\ ad_concept' = concept
        /\ critic_reply' = None
        /\ IF concept = None
           THEN /\ iterations' = <<>>
                /\ outcome' = "Failed to generate concept"
                /\ calls' = concept_calls
           ELSE /\ iterations' =
                       seed_append(<<>>, initial_image,
                                   initial_iteration(concept, initial_image))
                /\ outcome' = IF initial_image # NoImage THEN "ok"
                              ELSE "Failed to generate initial image"
                /\ calls' = concept_calls
                             \o generate_calls(concept.image_edit_instructions,
                                               gout)
        /\ UNCHANGED <<max_iterations, temp_file>>

\* The user presses "Apply Iteration k".
Step(resp, gout, eout) ==
    /\ StepInvokable
    /\ event' = "step"
    /\ UNCHANGED <<max_iterations, ad_concept>>
    /\ IF iterations = <<>>
       THEN /\ outcome' = "No initial image found"
            /\ calls' = <<>>
            /\ critic_reply' = None
            /\ UNCHANGED <<iterations, current_iteration, temp_file>>
       ELSE
       LET image == last_image(iterations)
           analysis == analyze_and_improve(resp)
           critic == critique_calls(image)
       IN  /\ critic_reply' = resp
           /\ IF analysis = None
              THEN /\ outcome' = "Failed to generate improvement instructions"
                   /\ calls' = critic
                   /\ UNCHANGED <<iterations, current_iteration, temp_file>>
              ELSE IF recommends_edit(analysis)
              THEN IF "edit_instructions" \notin analysis.keys
                   THEN \* analysis['edit_instructions'] raises KeyError
                        /\ outcome' = "KeyError"
                        /\ calls' = critic
                        /\ UNCHANGED <<iterations, current_iteration, temp_file>>
                   ELSE
                   LET ed == edit_image_with_prompt(image, EditInstr, eout)
                       done == commit(iterations, current_iteration, ed.image,
                                      new_iteration(current_iteration, ed.image,
                                                    EditInstr, analysis, "edit"))
                   IN  /\ iterations' = done.iterations
                       /\ current_iteration' = done.current_iteration
                       /\ temp_file' = ed.temp
                       /\ outcome' = IF ed.image # NoImage THEN "ok"
                                     ELSE "Failed to edit image"
                       /\ calls' = critic \o ed.calls
              ELSE IF "generation_instructions" \notin analysis.keys
              THEN \* analysis['generation_instructions'] raises KeyError
                   /\ outcome' = "KeyError"
                   /\ calls' = critic
                   /\ UNCHANGED <<iterations, current_iteration, temp_file>>
              ELSE LET result_image == generate_initial_image(gout)
                       done == commit(iterations, current_iteration, result_image,
                                      new_iteration(current_iteration, result_image,
                                                    GenInstr, analysis, "generate"))
                   IN  /\ iterations' = done.iterations
                       /\ current_iteration' = done.current_iteration
                       /\ outcome' = IF result_image # NoImage THEN "ok"
                                     ELSE "Failed to generate image"
                       /\ calls' = critic \o generate_calls(GenInstr, gout)
                       /\ UNCHANGED temp_file

Next ==
    \/ \E n \in SliderValues : SetMaxIterations(n)
    \/ \E cresp \in ConceptResponses, gout \in GenerateOutcomes :
           Seed(cresp, gout)
    \* a rerun performs at most one image operation: one outcome is drawn
    \/ \E resp \in CritiqueResponses, out \in GenerateOutcomes \cup EditOutcomes :
           Step(resp, out, out)

Spec == Init /\ [][Next]_vars

\* ------------------------------------------------ runs with a fixed maximum
\* A session in which the slider is set once, before the form is submitted,
\* and is then left alone.  The models answer from a reduced set of
\* responses so that every slider position up to SliderMax is explored.
FixedConceptResponses ==
    { [keys |-> ConceptRequired, image_edit_instructions |-> "promptA"],
      ApiError }

FixedCritiqueResponses ==
    { [keys |-> {"critique", "recommendation", "edit_instructions"},
       recommendation |-> "edit"],
      [keys |-> {"critique", "recommendation", "generation_instructions"},
       recommendation |-> "new"],
      ApiError }

FixedImageOutcomes == {"data:img1", "api_error"}

InitFixed ==
    /\ iterations = <<>>
    /\ current_iteration = 0
    /\ max_iterations \in SliderMin..SliderMax
    /\ ad_concept = None
    /\ temp_file = FALSE
    /\ event = "slider"
    /\ outcome = "ok"
    /\ calls = <<>>
    /\ critic_reply = None

NextFixed ==
    \/ \E cresp \in FixedConceptResponses, gout \in FixedImageOutcomes :
           Seed(cresp, gout)
    \/ \E resp \in FixedCritiqueResponses, out \in FixedImageOutcomes :
           Step(resp, out, out)

SpecFixed == InitFixed /\ [][NextFixed]_vars

\* One session from its seed to its end: the form is submitted until a seed
\* exists and is not submitted again; the user keeps pressing the button
\* and the calls of a step eventually all succeed.
StepSucceeds ==
    \E resp \in FixedCritiqueResponses, out \in FixedImageOutcomes :
        Step(resp, out, out) /\ outcome' = "ok"

NextLive ==
    \/ \E cresp \in FixedConceptResponses, gout \in FixedImageOutcomes :
           iterations = <<>> /\ Seed(cresp, gout)
    \/ \E resp \in FixedCritiqueResponses, out \in FixedImageOutcomes :
           Step(resp, out, out)

SpecLive == InitFixed /\ [][NextLive]_vars /\ WF_vars(StepSucceeds)

\* ------------------------------------------------------------- properties
LastIteration == iterations[Len(iterations)]

StepFailed == event = "step" /\ outcome # "ok"

\* C1 (as stated): with max_iterations = n fixed, a run driven until step()
\* is no longer invokable ends with exactly n iterations including the seed.
C1_RunEndsWithN ==
    (iterations # <<>> /\ ~StepInvokable) => Len(iterations) = max_iterations

\* C1 (amended): with max_iterations = n fixed, a run driven until step() is
\* no longer invokable ends with exactly n + 1 iterations including the seed,
\* indices 0..n, i.e. exactly n refinement steps; the list is never longer.
C1_RunEndsWithNPlusOne ==
    /\ Len(iterations) <= max_iterations + 1
    /\ (iterations # <<>> /\ ~StepInvokable) =>
           /\ Len(iterations) = max_iterations + 1
           /\ current_iteration = max_iterations
           /\ \A i \in 1..Len(iterations) : iterations[i].iteration = i - 1

C1_Witness ==
    /\ iterations # <<>> /\ ~StepInvokable
    /\ max_iterations = SliderMax
    /\ Len(iterations) = SliderMax + 1

\* C2: a step() that fails (Critic call, validation, or the dispatched image
\* operation) leaves iterations and the cursor as they were; a step() that
\* changes either of them appends exactly one iteration and advances the
\* cursor by one.
C2_StepAtomicOnFailure ==
    [][ /\ (event' = "step" /\ outcome' # "ok") =>
              (iterations' = iterations
               /\ current_iteration' = current_iteration)
        /\ (event' = "step"
            /\ (iterations' # iterations
                \/ current_iteration' # current_iteration)) =>
              (/\ Len(iterations') = Len(iterations) + 1
               /\ SubSeq(iterations', 1, Len(iterations)) = iterations
               /\ current_iteration' = current_iteration + 1) ]_vars

C2_Witness ==
    /\ StepFailed
    /\ outcome = "Failed to edit image"
    /\ Len(iterations) >= 2

\* C3 (as stated): no reachable state has a concept together with an empty
\* iteration list.
C3_NoConceptWithoutSeed ==
    ~(ad_concept # None /\ iterations = <<>>)

\* C3 (amended): a failed seed on an EMPTY session leaves iterations empty
\* and the cursor 0; the concept stays absent when ConceptGenerator failed,
\* but is stored when only InitialImageProducer failed.
C3_FailedSeedFromEmpty ==
    [][ (ad_concept = None /\ iterations = <<>>
         /\ event' = "seed" /\ outcome' # "ok") =>
            /\ iterations' = <<>>
            /\ current_iteration' = 0
            /\ (ad_concept' = None <=> outcome' = "Failed to generate concept")
            /\ (ad_concept' # None <=>
                    outcome' = "Failed to generate initial image") ]_vars

C3_Witness ==
    /\ event = "seed" /\ outcome = "Failed to generate initial image"
    /\ ad_concept # None
    /\ iterations = <<>> /\ current_iteration = 0

\* C4: either iterations is empty and the cursor is 0, or the cursor is
\* len(iterations) - 1.
C4_CursorTracksLength ==
    \/ iterations = <<>> /\ current_iteration = 0
    \/ iterations # <<>> /\ current_iteration = Len(iterations) - 1

C4_Witness ==
    /\ event = "step" /\ outcome = "ok"
    /\ Len(iterations) = 3 /\ current_iteration = 2

\* C5: the stored index of the iteration at position i is i (positions
\* counted from 0).
C5_IndexIsPosition ==
    \A i \in 1..Len(iterations) : iterations[i].iteration = i - 1

C5_Witness ==
    /\ Len(iterations) = 4
    /\ iterations[1].iteration = 0
    /\ iterations[4].iteration = 3
    /\ iterations[4].type = "edit"

\* C6 (as stated): the cursor never exceeds max_iterations.
C6_CursorWithinMax ==
    current_iteration <= max_iterations

\* C6 (amended): the cursor is within max_iterations after every seed and
\* every step(), and stays within it as long as setMaxIterations does not
\* lower max_iterations; it exceeds max_iterations only after
\* setMaxIterations(n) with n below the cursor.
C6_CursorWithinMaxUnlessLowered ==
    [][ /\ (current_iteration <= max_iterations
            /\ max_iterations' >= max_iterations) =>
               current_iteration' <= max_iterations'
        /\ (event' = "seed" \/ (event' = "step" /\ outcome' = "ok")) =>
               current_iteration' <= max_iterations'
        /\ (current_iteration <= max_iterations
            /\ current_iteration' > max_iterations') =>
               (event' = "slider" /\ max_iterations' < current_iteration) ]_vars

C6_Witness ==
    /\ event = "slider"
    /\ current_iteration > max_iterations

\* C7: every iteration at a position >= 1 has operation EDIT exactly when
\* its stored recommendation is "edit" and GENERATE otherwise, and a
\* successful step() stored the operation of the endpoint it called.
C7_OperationFollowsRecommendation ==
    /\ \A i \in 2..Len(iterations) :
          /\ iterations[i].type \in {"edit", "generate"}
          /\ iterations[i].type = "edit" <=>
                 iterations[i].recommendation = "edit"
    /\ (event = "step" /\ outcome = "ok") =>
          /\ Len(calls) = 2
          /\ calls[2].fn = "images.edit" <=> LastIteration.type = "edit"
          /\ calls[2].fn = "images.generate" <=>
                 LastIteration.type = "generate"

C7_Witness ==
    /\ Len(iterations) = 4
    /\ iterations[2].type = "edit"
    /\ iterations[3].type = "generate" /\ iterations[3].recommendation = "new"
    /\ iterations[4].type = "generate"
    /\ iterations[4].recommendation = "maybe"

\* C8: after a successful seed the list is exactly one iteration with index
\* 0 and operation GENERATE and the cursor is 0; the iteration at position 0
\* always has operation GENERATE and neither critique nor recommendation.
C8_SeedIteration ==
    /\ (event = "seed" /\ outcome = "ok") =>
          /\ Len(iterations) = 1
          /\ iterations[1].iteration = 0
          /\ iterations[1].type = "generate"
          /\ current_iteration = 0
    /\ iterations # <<>> =>
          /\ iterations[1].type = "generate"
          /\ iterations[1].critique = Absent
          /\ iterations[1].recommendation = Absent

C8_Witness ==
    /\ event = "seed" /\ outcome = "ok"
    /\ Len(iterations) = 1
    /\ max_iterations = 1

\* C9 (as stated): with max_iterations = 1 a seeded session is COMPLETE,
\* step() is not invokable and the list holds the seed only.
C9_CompleteAfterSeed ==
    (max_iterations = 1 /\ iterations # <<>>) =>
        (~StepInvokable /\ Complete /\ Len(iterations) = 1)

\* C9 (amended): with max_iterations = 1, right after a successful seed
\* step() is invokable and the session is not COMPLETE; after one successful
\* step() the session is COMPLETE and step() is not invokable, so the list
\* never grows beyond the seed plus one refinement.
C9_CompleteAfterOneStep ==
    max_iterations = 1 =>
        /\ Len(iterations) <= 2
        /\ Len(iterations) = 1 => (StepInvokable /\ ~Complete)
        /\ Len(iterations) = 2 => (~StepInvokable /\ Complete)

C9_Witness ==
    /\ max_iterations = 1
    /\ Len(iterations) = 2
    /\ event = "step" /\ outcome = "ok"

\* C10: every iteration at a position >= 1 has a recommendation that is
\* "edit" or "new"; any other value makes the step fail before an image
\* endpoint is called.
C10_RecommendationValidated ==
    \A i \in 2..Len(iterations) :
        iterations[i].recommendation \in {"edit", "new"}

\* The Critic returned a JSON object in the last rerun.
ReplyIsJson == critic_reply # None /\ critic_reply # ApiError

\* The recommendation is "edit" or "new" and its instructions are missing.
MissingCompanion(r) ==
    /\ "recommendation" \in r.keys
    /\ \/ r.recommendation = "edit" /\ "edit_instructions" \notin r.keys
       \/ r.recommendation = "new" /\ "generation_instructions" \notin r.keys

\* The reply has the required keys and the instructions that go with them.
Validated(r) ==
    /\ r # None /\ r # ApiError
    /\ {"critique", "recommendation"} \subseteq r.keys
    /\ ~MissingCompanion(r)

ImageCalls == {"images.generate", "images.edit"}

\* C11: a Critic reply with recommendation "edit" and no edit_instructions,
\* or "new" and no generation_instructions, makes step() fail as a rejected
\* critique, with no image call, and leaves iterations and cursor unchanged.
C11_MissingCompanionFails ==
    [][ (event' = "step" /\ critic_reply' # None /\ critic_reply' # ApiError
         /\ MissingCompanion(critic_reply')) =>
            /\ outcome' = "Failed to generate improvement instructions"
            /\ Len(calls') = 1
            /\ calls'[1].fn = "chat.critique"
            /\ iterations' = iterations
            /\ current_iteration' = current_iteration ]_vars

C11_Witness ==
    /\ event = "step" /\ ReplyIsJson
    /\ critic_reply.recommendation = "edit"
    /\ critic_reply.keys = {"critique", "recommendation"}
    /\ outcome = "Failed to generate improvement instructions"
    /\ Len(iterations) = 2

\* C12: a case variant of "edit" with edit_instructions present is sent to
\* the edit endpoint and appends an EDIT iteration; a case variant of "new"
\* with generation_instructions present is sent to generation.
C12_CaseInsensitiveRecommendation ==
    (event = "step" /\ ReplyIsJson
     /\ {"critique", "recommendation"} \subseteq critic_reply.keys) =>
        /\ (critic_reply.recommendation = "Edit"
            /\ "edit_instructions" \in critic_reply.keys) =>
               /\ outcome \in {"ok", "Failed to edit image"}
               /\ Len(calls) = 2 => calls[2].fn = "images.edit"
               /\ outcome = "ok" => LastIteration.type = "edit"
        /\ (critic_reply.recommendation = "New"
            /\ "generation_instructions" \in critic_reply.keys) =>
               /\ outcome \in {"ok", "Failed to generate image"}
               /\ Len(calls) = 2 /\ calls[2].fn = "images.generate"
               /\ outcome = "ok" => LastIteration.type = "generate"

\* C13 (as stated): a failed seed on a session with history leaves concept,
\* iterations and cursor unchanged.
C13_FailedSeedKeepsSession ==
    [][ (iterations # <<>> /\ event' = "seed" /\ outcome' # "ok") =>
            /\ ad_concept' = ad_concept
            /\ iterations' = iterations
            /\ current_iteration' = current_iteration ]_vars

\* C13 (amended): a failed seed on a session with history discards that
\* history: iterations is empty and the cursor 0, the concept is absent if
\* concept generation failed and is the new concept if only the image
\* failed; a failed step() never removes an appended iteration.
C13_FailedSeedDiscardsSession ==
    [][ /\ (iterations # <<>> /\ event' = "seed" /\ outcome' # "ok") =>
              /\ iterations' = <<>>
              /\ current_iteration' = 0
              /\ outcome' = "Failed to generate concept" => ad_concept' = None
              /\ outcome' = "Failed to generate initial image" =>
                     (ad_concept' # None /\ Len(calls') = 2)
        /\ (iterations # <<>> /\ event' = "step" /\ outcome' # "ok") =>
              /\ Len(iterations') >= Len(iterations)
              /\ SubSeq(iterations', 1, Len(iterations)) = iterations ]_vars

C13_Witness ==
    /\ event = "seed" /\ outcome = "Failed to generate concept"
    /\ ad_concept = None
    /\ iterations = <<>> /\ current_iteration = 0
    /\ Len(calls) = 1

\* C14 (as stated): once cursor == max_iterations, no step() or
\* setMaxIterations(n) makes step() invokable again or appends.
C14_CompleteIsTerminal ==
    [][ (iterations # <<>> /\ current_iteration = max_iterations
         /\ event' \in {"step", "slider"}) =>
            (~StepInvokable' /\ iterations' = iterations) ]_vars

\* C14 (amended): once cursor == max_iterations, step() is not invokable and
\* nothing is appended as long as max_iterations is not raised and no new
\* seed is made; setMaxIterations(n) with n above the cursor makes step()
\* invokable again.
C14_CompleteUntilRaised ==
    [][ /\ (iterations # <<>> /\ current_iteration = max_iterations
            /\ event' # "seed" /\ max_iterations' <= max_iterations) =>
               /\ ~StepInvokable'
               /\ iterations' = iterations
               /\ current_iteration' = current_iteration
        /\ (iterations # <<>> /\ current_iteration = max_iterations
            /\ event' = "slider" /\ max_iterations' > max_iterations) =>
               /\ StepInvokable'
               /\ iterations' = iterations ]_vars

C14_Witness ==
    /\ event = "slider" /\ StepInvokable
    /\ max_iterations = 2
    /\ current_iteration = 1 /\ Len(iterations) = 2

\* C15: every step() runs the Critic on the image of the last iteration; an
\* edit is sent the bytes of that same image, and a generation is sent the
\* generation instructions and no image.
C15_CriticAndEditSeeLastImage ==
    (event = "step" /\ calls # <<>>) =>
        LET prev == IF outcome = "ok"
                    THEN iterations[Len(iterations) - 1].image
                    ELSE LastIteration.image
        IN  /\ calls[1].fn = "chat.critique"
            /\ calls[1].image = prev
            /\ Len(calls) = 2 =>
                  \/ /\ calls[2].fn = "images.edit"
                     /\ critic_reply.recommendation = "edit"
                     /\ calls[2].image = Payload(prev)
                     /\ calls[2].prompt = EditInstr
                  \/ /\ calls[2].fn = "images.generate"
                     /\ critic_reply.recommendation # "edit"
                     /\ calls[2].image = NoImage
                     /\ calls[2].prompt = GenInstr

C15_Witness ==
    /\ event = "step" /\ outcome = "ok"
    /\ Len(iterations) = 3
    /\ iterations[1].image # iterations[2].image
    /\ Len(calls) = 2
    /\ calls[2].fn = "images.edit"
    /\ calls[2].image = Payload(iterations[2].image)

\* C16: within one rerun each external call is made at most once, and an
\* image call of a step() comes second, after a Critic call whose reply
\* passed validation.
C16_NoAutomaticRetry ==
    /\ Len(calls) <= 2
    /\ \A i, j \in 1..Len(calls) : calls[i].fn = calls[j].fn => i = j
    /\ event = "step" =>
          \A i \in 1..Len(calls) :
              calls[i].fn \in ImageCalls =>
                  /\ i = 2
                  /\ calls[1].fn = "chat.critique"
                  /\ Validated(critic_reply)
    /\ event = "seed" =>
          /\ calls[1].fn = "chat.concept"
          /\ Len(calls) = 2 => (calls[2].fn = "images.generate"
                                /\ ad_concept # None)

C16_Witness ==
    /\ event = "step" /\ outcome = "Failed to generate image"
    /\ Len(calls) = 2
    /\ calls[2].fn = "images.generate"
    /\ critic_reply.recommendation = "new"

\* C17: temp_image.png does not exist in any state between reruns, whatever
\* way edit_image_with_prompt was left.
C17_NoScratchFileAtRest ==
    temp_file = FALSE

C17_Witness ==
    /\ event = "step" /\ outcome = "Failed to edit image"
    /\ Len(calls) = 2
    /\ calls[2].fn = "images.edit"
    /\ temp_file = FALSE

\* C18: a successful step() appends one iteration and advances the cursor by
\* one; the concept, max_iterations and every earlier iteration are
\* unchanged.
C18_SuccessfulStepFrame ==
    [][ (event' = "step" /\ outcome' = "ok") =>
            /\ ad_concept' = ad_concept
            /\ max_iterations' = max_iterations
            /\ Len(iterations') = Len(iterations) + 1
            /\ \A i \in 1..Len(iterations) : iterations'[i] = iterations[i]
            /\ current_iteration' = current_iteration + 1 ]_vars

C18_Witness ==
    /\ event = "step" /\ outcome = "ok"
    /\ Len(iterations) = 3
    /\ iterations[3].type = "generate"
    /\ ad_concept.image_edit_instructions = "promptB"

\* C19: in a seeded session with max_iterations fixed, if the user keeps
\* pressing the button and a step() whose calls all succeed is not postponed
\* forever, the cursor eventually equals max_iterations and step() is no
\* longer invokable.
C19_EventuallyComplete ==
    (iterations # <<>>) ~>
        (current_iteration = max_iterations /\ ~StepInvokable)

C19_Witness ==
    /\ current_iteration = max_iterations /\ ~StepInvokable
    /\ max_iterations = 2
    /\ event = "step" /\ outcome = "ok"

=============================================================================
